---------------------------- MODULE Spec2Model ----------------------------
(***************************************************************************)
(* Model of the contiguous frame allocator of cont_frame_pool.C.           *)
(*                                                                         *)
(* Physical memory is a flat array of bytes; a pool's packed state array   *)
(* ("bitmap") is a byte address into it, FRAME_SIZE * frame number, as in  *)
(* the constructor.  Frame states are two-bit fields decoded and encoded   *)
(* by get_state / set_state exactly as the code does, so an access past a  *)
(* pool's nframes lands in whatever memory follows its state array.        *)
(*                                                                         *)
(* nFreeFrames is declared outside this file.  The model keeps the signed   *)
(* representative of its value: decrementing below zero gives a negative   *)
(* number, which is the wrapped value if the counter is unsigned.  Whether *)
(* such a value passes assert(nFreeFrames > 0) depends on the declared     *)
(* type, so get_frames is modelled with both outcomes.                     *)
(***************************************************************************)
EXTENDS Integers, Sequences, FiniteSets

\* Bytes per frame (scaled down: 4 frame states are packed per byte).
FRAME_SIZE == 2

\* Largest run length passed to get_frames.
MaxN == 3

\* Range lengths passed to mark_inaccessible.
MarkLengths == 1 .. MaxN

\* Number of calls (constructions included) a behaviour of the model makes.
MaxCalls == 5


NULL == 0

Pools == {1, 2}

\* Absolute frame numbers passed to release_frames and mark_inaccessible: the
\* frames 1 .. 4 of pool 1, the frames 5 .. 7 of pool 2, and a frame on either
\* side that no pool owns.
FrameNos == 0 .. 8

\* Frames whose memory is modelled (the frames that can hold a state array,
\* and the frame behind them).
MemFrames == 1 .. 3

MemAddrs == (FRAME_SIZE * 1) .. (FRAME_SIZE * 4 - 1)

\* Contents a byte of memory can have before any pool is constructed over
\* it: 0, or 11 10 01 00 (one field of every bit pattern).
PriorBytes == {0, 228}

\* Constructor arguments used for each pool object.
CtorArgs ==
  [p \in Pools |->
     IF p = 1
     THEN {[base |-> 1, n |-> 4, info |-> 0]}
     ELSE {[base |-> 5, n |-> 3, info |-> 2]}]

VARIABLES
  mem,            \* physical memory: byte address -> 0..255
  boot,           \* the byte the memory was filled with before any call
  constructed,    \* pool object -> its constructor has run
  base_frame_no,
  nframes,
  nFreeFrames,
  info_frame_no,
  bitmap,         \* pool object -> byte address of its state array
  prev,
  next,
  head,
  tail,
  halted,         \* an assert has failed: the kernel has stopped
  calls,          \* number of calls made so far
  last            \* the call just made: operation, arguments, result, console

vars == <<mem, boot, constructed, base_frame_no, nframes, nFreeFrames, info_frame_no,
          bitmap, prev, next, head, tail, halted, calls, last>>

poolVars == <<boot, constructed, base_frame_no, nframes, info_frame_no, bitmap>>
linkVars == <<prev, next, head, tail>>

-----------------------------------------------------------------------------
(* State codec *)

\* 1 << framePos, for framePos = (_frame_no % 4) * 2
Shift(_frame_no) ==
  CASE _frame_no % 4 = 0 -> 1
    [] _frame_no % 4 = 1 -> 4
    [] _frame_no % 4 = 2 -> 16
    [] OTHER -> 64

\* (bitmap[bitmap_index] >> framePos) & 0x3
LSB(m, ptr, _frame_no) ==
  (m[ptr + (_frame_no \div 4)] \div Shift(_frame_no)) % 4

get_state(m, ptr, _frame_no) ==
  CASE LSB(m, ptr, _frame_no) = 0 -> "Free"
    [] LSB(m, ptr, _frame_no) = 1 -> "Used"
    [] LSB(m, ptr, _frame_no) = 2 -> "HoS"
    [] OTHER -> "Error"

\* bitmap[bitmap_index], the field of _frame_no left as it is
ClearField_Keep(byte, _frame_no) == byte

\* bitmap[bitmap_index] & ~mask
ClearField(byte, _frame_no) ==
  byte - ((byte \div Shift(_frame_no)) % 4) * Shift(_frame_no)

set_state(m, ptr, _frame_no, _state) ==
  LET bitmap_index == ptr + (_frame_no \div 4)
      byte == m[bitmap_index]
  IN  CASE _state = "Used" ->
             [m EXCEPT ![bitmap_index] =
                ClearField(byte, _frame_no) + 1 * Shift(_frame_no)]
        [] _state = "Free" ->
             [m EXCEPT ![bitmap_index] = ClearField(byte, _frame_no)]
        [] _state = "HoS" ->
             [m EXCEPT ![bitmap_index] =
                ClearField(byte, _frame_no) + 2 * Shift(_frame_no)]
        [] OTHER -> m

\* The byte holding the state of _frame_no lies in modelled memory.
InMem(ptr, _frame_no) ==
  (ptr + (_frame_no \div 4)) \in MemAddrs

\* Slots from .. from + cnt - 1 all lie in modelled memory.
RangeInMem(ptr, from, cnt) ==
  \A i \in from .. (from + cnt - 1) : InMem(ptr, i)

-----------------------------------------------------------------------------
(* Construction *)

\* The record of a call: pre is the free counter of the pool before the call.
Call(op, p, f, n, ret, pre, out) ==
  [op |-> op, pool |-> p, f |-> f, n |-> n, ret |-> ret, pre |-> pre, out |-> out]

\* The prev and next members of the pool objects before their constructors
\* run: the members are declared outside this file, and are taken to be null
\* until a constructor or release_frames assigns them.
NoLinks == [p \in Pools |-> NULL]

\* No pool object has been constructed and the registry is empty
\* (ContFramePool::head and ContFramePool::tail are defined as nullptr).
NoPools ==
  /\ constructed = [p \in Pools |-> FALSE]
  /\ base_frame_no = [p \in Pools |-> 0]
  /\ nframes = [p \in Pools |-> 0]
  /\ nFreeFrames = [p \in Pools |-> 0]
  /\ info_frame_no = [p \in Pools |-> 0]
  /\ bitmap = [p \in Pools |-> NULL]
  /\ prev = NoLinks
  /\ next = NoLinks
  /\ head = NULL
  /\ tail = NULL
  /\ halted = FALSE
  /\ calls = 0

Init ==
  /\ boot \in PriorBytes
  /\ mem = [a \in MemAddrs |-> boot]
  /\ NoPools
  /\ last = Call("boot", NULL, 0, 0, 0, 0, <<>>)

\* bitmap = FRAME_SIZE * (info_frame_no == 0 ? base_frame_no : info_frame_no)
BitmapAddr(_base_frame_no, _info_frame_no) ==
  IF _info_frame_no = 0
  THEN FRAME_SIZE * _base_frame_no
  ELSE FRAME_SIZE * _info_frame_no

\* Values the not yet assigned bitmap pointer can hold while the constructor's
\* first loop writes through it: an address outside the modelled memory, or
\* the address the pointer is assigned afterwards.
WildPtrs(a) == {NULL, BitmapAddr(a.base, a.info)}

\* A call is made: the kernel runs and the model's call budget is not used up.
Running == ~halted /\ calls < MaxCalls

\* for (fno = 0; fno < nframes; fno++) set_state(fno, Free), through ptr
RECURSIVE InitFree(_, _, _, _)
InitFree(m, ptr, fno, n) ==
  IF fno >= n \/ ptr = NULL
  THEN m
  ELSE InitFree(set_state(m, ptr, fno, "Free"), ptr, fno + 1, n)

\* The frame index the constructor marks HeadOfSequence.
InfoIndex(_base_frame_no, _info_frame_no) == _info_frame_no

\* ContFramePool::ContFramePool.  assertOk is the outcome of the assert on
\* the member nframes, which is read before it is assigned.
Construct(p, a, assertOk, wild) ==
  /\ Running
  /\ calls' = calls + 1
  /\ ~constructed[p]
  /\ IF ~assertOk
     THEN /\ halted' = TRUE
          /\ last' = Call("construct", p, a.base, a.n, 0, 0, <<"assert">>)
          /\ UNCHANGED <<mem, poolVars, nFreeFrames, linkVars>>
     ELSE LET ptr == BitmapAddr(a.base, a.info)
              m1 == InitFree(mem, wild, 0, a.n)
          IN  /\ wild # NULL => RangeInMem(wild, 0, a.n)
              /\ InMem(ptr, InfoIndex(a.base, a.info))
              /\ mem' = set_state(m1, ptr, InfoIndex(a.base, a.info), "HoS")
              /\ UNCHANGED boot
              /\ constructed' = [constructed EXCEPT ![p] = TRUE]
              /\ base_frame_no' = [base_frame_no EXCEPT ![p] = a.base]
              /\ nframes' = [nframes EXCEPT ![p] = a.n]
              /\ nFreeFrames' = [nFreeFrames EXCEPT ![p] = a.n - 1]
              /\ info_frame_no' = [info_frame_no EXCEPT ![p] = a.info]
              /\ bitmap' = [bitmap EXCEPT ![p] = ptr]
              /\ IF head = NULL
                 THEN /\ head' = p
                      /\ tail' = p
                      /\ UNCHANGED <<prev, next>>
                 ELSE /\ next' = [next EXCEPT ![tail] = p, ![p] = NULL]
                      /\ prev' = [prev EXCEPT ![p] = tail]
                      /\ tail' = p
                      /\ UNCHANGED head
              /\ last' = Call("construct", p, a.base, a.n, 0, 0,
                              IF head = NULL THEN <<"init">>
                              ELSE <<"attach", "init">>)
              /\ UNCHANGED halted

-----------------------------------------------------------------------------
(* Allocation *)

\* while (get_state(frame_no) == Used || get_state(frame_no) == HoS) frame_no++
\* The result is the index the loop stops at, or -1 when the scan leaves the
\* modelled memory.
RECURSIVE FirstNotUsed(_, _, _)
FirstNotUsed(m, ptr, frame_no) ==
  IF ~InMem(ptr, frame_no)
  THEN -1
  ELSE IF get_state(m, ptr, frame_no) = "Used" \/ get_state(m, ptr, frame_no) = "HoS"
       THEN FirstNotUsed(m, ptr, frame_no + 1)
       ELSE frame_no

\* for (i = 0; i < _n_frames - 1; i++) { set_state(frame_no, Used); frame_no++ }
RECURSIVE MarkUsed(_, _, _, _)
MarkUsed(m, ptr, frame_no, cnt) ==
  IF cnt = 0
  THEN m
  ELSE MarkUsed(set_state(m, ptr, frame_no, "Used"), ptr, frame_no + 1, cnt - 1)

\* The head is marked, then the _n_frames - 1 frames behind it.
MarkRun(m, ptr, beginning_frame_no, _n_frames) ==
  MarkUsed(set_state(m, ptr, beginning_frame_no, "HoS"), ptr,
           beginning_frame_no + 1, _n_frames - 1)

\* Variant: the counter is lowered for the head only.
AfterAlloc_HeadOnly(free, _n_frames) == free - 1

\* nFreeFrames-- once for the head and once per following frame
AfterAlloc(free, _n_frames) == free - _n_frames

\* The console line of the marking loop is printed for some frame.
Overwrites(m, ptr, beginning_frame_no, _n_frames) ==
  \E i \in (beginning_frame_no + 1) .. (beginning_frame_no + _n_frames - 1) :
    get_state(m, ptr, i) \in {"Used", "HoS"}

\* assert(nFreeFrames > 0): a counter that went below zero passes it as an
\* unsigned value and fails it as a signed one.
AssertFree(free, asUnsigned) ==
  IF asUnsigned THEN free # 0 ELSE free > 0

\* ContFramePool::get_frames on pool object p (through its own handle).
GetFrames(p, _n_frames, asUnsigned) ==
  /\ Running
  /\ calls' = calls + 1
  /\ constructed[p]
  /\ IF ~AssertFree(nFreeFrames[p], asUnsigned)
     THEN /\ halted' = TRUE
          /\ last' = Call("get_frames", p, 0, _n_frames, -1, nFreeFrames[p],
                          <<"assert">>)
          /\ UNCHANGED <<mem, poolVars, nFreeFrames, linkVars>>
     ELSE LET beginning_frame_no == FirstNotUsed(mem, bitmap[p], 0)
          IN  /\ beginning_frame_no # -1
              /\ RangeInMem(bitmap[p], beginning_frame_no, _n_frames)
              /\ mem' = MarkRun(mem, bitmap[p], beginning_frame_no, _n_frames)
              /\ nFreeFrames' =
                   [nFreeFrames EXCEPT ![p] = AfterAlloc(@, _n_frames)]
              /\ last' = Call("get_frames", p, 0, _n_frames,
                              beginning_frame_no + base_frame_no[p],
                              nFreeFrames[p],
                              IF Overwrites(mem, bitmap[p], beginning_frame_no,
                                            _n_frames)
                              THEN <<"overwrite">> ELSE <<>>)
              /\ UNCHANGED <<poolVars, linkVars, halted>>

-----------------------------------------------------------------------------
(* Reservation *)

\* for (fno = _base_frame_no; fno < _base_frame_no + _n_frames; fno++)
\*   set_state(fno - base_frame_no, Used)
RECURSIVE MarkRange(_, _, _, _)
MarkRange(m, ptr, frame_no, cnt) ==
  IF cnt = 0
  THEN m
  ELSE MarkRange(set_state(m, ptr, frame_no, "Used"), ptr, frame_no + 1, cnt - 1)

\* The free counter after mark_inaccessible.
AfterMark(free, _n_frames) == free

\* ContFramePool::mark_inaccessible on pool object p; the range lies in the pool.
MarkInaccessible(p, _base_frame_no, _n_frames) ==
  /\ Running
  /\ calls' = calls + 1
  /\ constructed[p]
  /\ _base_frame_no >= base_frame_no[p]
  /\ _base_frame_no + _n_frames <= base_frame_no[p] + nframes[p]
  /\ mem' = MarkRange(mem, bitmap[p], _base_frame_no - base_frame_no[p], _n_frames)
  /\ nFreeFrames' = [nFreeFrames EXCEPT ![p] = AfterMark(@, _n_frames)]
  /\ last' = Call("mark_inaccessible", p, _base_frame_no, _n_frames, 0,
                  nFreeFrames[p], <<>>)
  /\ UNCHANGED <<poolVars, linkVars, halted>>

-----------------------------------------------------------------------------
(* Release *)

\* temp->base_frame_no <= _first_frame_no &&
\*   _first_frame_no < temp->base_frame_no + temp->nframes
Owns(temp, _first_frame_no) ==
  /\ base_frame_no[temp] <= _first_frame_no
  /\ _first_frame_no < base_frame_no[temp] + nframes[temp]

\* The registry walk from temp: the first pool whose range holds the frame.
RECURSIVE FindPool(_, _)
FindPool(temp, _first_frame_no) ==
  IF temp = NULL
  THEN NULL
  ELSE IF Owns(temp, _first_frame_no)
       THEN temp
       ELSE FindPool(next[temp], _first_frame_no)

\* Variant: the release goes ahead on any frame that is in use.
IsHead_InUse(m, ptr, frame) == get_state(m, ptr, frame) \in {"HoS", "Used"}

\* temp->get_state(frame) != HoS is false: the release goes ahead
IsHead(m, ptr, frame) == get_state(m, ptr, frame) = "HoS"

\* while (frame < temp->nframes && temp->get_state(frame) == Used)
\*   { set_state(frame, Free); frame++; nFreeFrames++ }
RECURSIVE FreeUsed(_, _, _, _)
FreeUsed(r, ptr, frame, n) ==
  IF frame < n /\ get_state(r.mem, ptr, frame) = "Used"
  THEN FreeUsed([mem |-> set_state(r.mem, ptr, frame, "Free"),
                 free |-> r.free + 1],
                ptr, frame + 1, n)
  ELSE r

\* The head is freed, then the Used frames behind it.
FreeRun(m, free, ptr, frame, n) ==
  FreeUsed([mem |-> set_state(m, ptr, frame, "Free"), free |-> free + 1],
           ptr, frame + 1, n)

\* Variant: the pool leaves the registry when all but one frame are free.
FullyFree_ButOne(free, n) == free = n - 1

\* if (temp->nFreeFrames == temp->nframes): the pool leaves the registry
FullyFree(free, n) == free = n

\* Variant: head is left as it is when the pool it points to is unlinked.
HeadAfterUnlink_Keep(temp) == head

\* if (temp == head) head = temp->next
HeadAfterUnlink(temp) == IF temp = head THEN next[temp] ELSE head

\* ContFramePool::release_frames (static: no pool handle).
ReleaseFrames(_first_frame_no) ==
  /\ Running
  /\ calls' = calls + 1
  /\ LET temp == FindPool(head, _first_frame_no)
     IN  IF temp = NULL
         THEN /\ last' = Call("release_frames", NULL, _first_frame_no, 0, 0, 0, <<>>)
              /\ UNCHANGED <<mem, poolVars, nFreeFrames, linkVars, halted>>
         ELSE LET frame == _first_frame_no - base_frame_no[temp]
              IN  IF ~IsHead(mem, bitmap[temp], frame)
                  THEN /\ last' = Call("release_frames", temp, _first_frame_no,
                                       0, 0, nFreeFrames[temp], <<"not_head">>)
                       /\ UNCHANGED <<mem, poolVars, nFreeFrames, linkVars, halted>>
                  ELSE LET r == FreeRun(mem, nFreeFrames[temp], bitmap[temp],
                                        frame, nframes[temp])
                       IN  /\ mem' = r.mem
                           /\ nFreeFrames' = [nFreeFrames EXCEPT ![temp] = r.free]
                           /\ IF FullyFree(r.free, nframes[temp])
                              THEN /\ next' = IF prev[temp] # NULL
                                              THEN [next EXCEPT ![prev[temp]] = next[temp]]
                                              ELSE next
                                   /\ prev' = IF next[temp] # NULL
                                              THEN [prev EXCEPT ![next[temp]] = prev[temp]]
                                              ELSE prev
                                   /\ head' = HeadAfterUnlink(temp)
                                   /\ tail' = IF temp = tail THEN prev[temp] ELSE tail
                                   /\ last' = Call("release_frames", temp,
                                                   _first_frame_no, 0, 0,
                                                   nFreeFrames[temp],
                                                   <<"freed", "removed">>)
                              ELSE /\ UNCHANGED linkVars
                                   /\ last' = Call("release_frames", temp,
                                                   _first_frame_no, 0, 0,
                                                   nFreeFrames[temp],
                                                   <<"freed">>)
                           /\ UNCHANGED <<poolVars, halted>>

-----------------------------------------------------------------------------

Next ==
  \/ \E p \in Pools : \E a \in CtorArgs[p] : \E assertOk \in BOOLEAN :
       \E wild \in WildPtrs(a) : Construct(p, a, assertOk, wild)
  \/ \E p \in Pools : \E n \in 1 .. MaxN : \E asUnsigned \in BOOLEAN :
       GetFrames(p, n, asUnsigned)
  \/ \E p \in Pools : \E f \in FrameNos : \E n \in MarkLengths :
       MarkInaccessible(p, f, n)
  \/ \E f \in FrameNos : ReleaseFrames(f)

Spec == Init /\ [][Next]_vars

-----------------------------------------------------------------------------
(* Vocabulary of the properties *)

\* The state of pool p's frame with relative index i, as its state array reads.
State(p, i) == get_state(mem, bitmap[p], i)

\* The same, after the step.
StateAfter(p, i) == get_state(mem', bitmap'[p], i)

\* The relative indices of pool p's frames.
Frames(p) == 0 .. (nframes[p] - 1)

FreeFramesOf(p) == {i \in Frames(p) : State(p, i) = "Free"}

\* A run of n contiguous Free frames lies inside pool p.
HasFreeRun(p, n) ==
  \E i \in 0 .. (nframes[p] - n) : \A j \in i .. (i + n - 1) : State(p, j) = "Free"

\* Pool p is met by following next from t.
RECURSIVE ReachedFrom(_, _)
ReachedFrom(t, p) ==
  t # NULL /\ (t = p \/ ReachedFrom(next[t], p))

Registered(p) == ReachedFrom(head, p)

RegisteredAfter(p) == Registered(p)'

\* A call returned a frame number.
Returned(c) == c.op = "get_frames" /\ c.ret # -1

\* Relative index in the pool of call c of the frame c returned.
HeadOf(c) == c.ret - base_frame_no[c.pool]

\* The frame states, free counters and registry links.
allocState == <<mem, nFreeFrames, prev, next, head, tail>>

-----------------------------------------------------------------------------
(* Properties *)

\* The memory read zero before the pools were built: a constructed pool's
\* state array started with every frame Free.
ZeroBoot == boot = 0

\* C1: in every reachable state each constructed pool's free counter equals
\* the number of its frames in [0, nframes) whose state is Free (stated for
\* memory that read zero before the pools were built).
C1_FreeCountExact ==
  ZeroBoot =>
    \A p \in Pools :
      constructed[p] => nFreeFrames[p] = Cardinality(FreeFramesOf(p))

\* C2: get_frames never changes the state of a frame of a pool that was not
\* Free before the call, and every frame of the run it returns was a Free
\* frame of the pool before the call (stated for memory that read zero before
\* the pools were built).
C2_OnlyFreeFramesTaken ==
  [][(ZeroBoot /\ last'.op = "get_frames") =>
       /\ \A q \in Pools : \A i \in Frames(q) :
            (constructed[q] /\ State(q, i) # "Free") =>
               StateAfter(q, i) = State(q, i)
       /\ Returned(last') =>
            \A i \in HeadOf(last') .. (HeadOf(last') + last'.n - 1) :
              i \in FreeFramesOf(last'.pool)]_vars

\* C3: get_frames(n) on a pool that holds no run of n contiguous Free frames
\* inside [0, nframes) returns no frame number (stated for memory that read
\* zero before the pools were built).
C3_NoFitFails ==
  [][(ZeroBoot /\ last'.op = "get_frames"
        /\ ~HasFreeRun(last'.pool, last'.n)) =>
       last'.ret = -1]_vars

\* C4: after get_frames(n) returned head h, frame h is HeadOfSequence, frames
\* h+1 .. h+n-1 are Allocated, exactly one frame of the run is HeadOfSequence,
\* and the free counter is n lower than before the call.
C4_RunMarked ==
  Returned(last) =>
    LET p == last.pool
        h == HeadOf(last)
        run == h .. (h + last.n - 1)
    IN  /\ State(p, h) = "HoS"
        /\ \A i \in run \ {h} : State(p, i) = "Used"
        /\ Cardinality({i \in run : State(p, i) = "HoS"}) = 1
        /\ nFreeFrames[p] = last.pre - last.n

\* A get_frames call for a run of several frames has returned.
C4_Witness == ZeroBoot /\ Returned(last) /\ last.n >= 2

\* release_frames(h) is called right after the get_frames call that returned h.
ReleasesLastRun ==
  /\ Returned(last)
  /\ last'.op = "release_frames"
  /\ last'.f = last.ret

\* C5: get_frames(n), n within the pool's capacity, returning h and followed
\* immediately by release_frames(h) restores the pool's free counter to its
\* value before the allocation and leaves frames h .. h+n-1 Free (stated for
\* memory that read zero before the pools were built).
C5_RoundTrip ==
  [][(ZeroBoot /\ ReleasesLastRun /\ last.n <= nframes[last.pool]) =>
       /\ nFreeFrames'[last.pool] = last.pre
       /\ \A i \in HeadOf(last) .. (HeadOf(last) + last.n - 1) :
            StateAfter(last.pool, i) = "Free"]_vars

\* C6: release_frames(h) on the head of the run get_frames just returned
\* frees the frames of that run only: every other frame of every pool keeps
\* its state (stated for memory that read zero before the pools were built).
C6_ReleaseStopsAtRun ==
  [][(ZeroBoot /\ ReleasesLastRun) =>
       \A q \in Pools : \A i \in Frames(q) :
         (constructed[q]
            /\ ~(q = last.pool
                   /\ i \in HeadOf(last) .. (HeadOf(last) + last.n - 1))) =>
           StateAfter(q, i) = State(q, i)]_vars

\* release_frames(f) finds f in registered pool t, and f is not a head there.
ReleasesNonHead(f) ==
  LET t == FindPool(head, f)
  IN  t # NULL /\ State(t, f - base_frame_no[t]) # "HoS"

\* C7: release_frames(f), f in a registered pool and not HeadOfSequence,
\* changes no frame state, no free counter and no registry link.
C7_NonHeadReleaseInert ==
  [][(last'.op = "release_frames" /\ ReleasesNonHead(last'.f)) =>
       UNCHANGED allocState]_vars

\* release_frames was called on an Allocated frame of a registered pool.
C7_Witness ==
  /\ ZeroBoot
  /\ last.op = "release_frames"
  /\ last.pool # NULL
  /\ Registered(last.pool)
  /\ State(last.pool, last.f - base_frame_no[last.pool]) = "Used"

\* No registered pool's range holds frame f.
Unowned(f) == \A p \in Pools : Registered(p) => ~Owns(p, f)

\* C8: release_frames(f), f outside the range of every registered pool,
\* changes no frame state, free counter or registry link, and reports the
\* failure: the call is not silent.
C8_UnownedReleaseReported ==
  [][(last'.op = "release_frames" /\ Unowned(last'.f)) =>
       /\ UNCHANGED allocState
       /\ last'.out # <<>>]_vars

\* C9: mark_inaccessible(first_frame, n) marks first_frame HeadOfSequence and
\* the n-1 frames behind it Allocated, and lowers the free counter by n
\* (stated for memory that read zero before the pools were built).
C9_MarkLikeGetFrames ==
  (ZeroBoot /\ last.op = "mark_inaccessible") =>
    LET p == last.pool
        h == last.f - base_frame_no[p]
    IN  /\ State(p, h) = "HoS"
        /\ \A i \in (h + 1) .. (h + last.n - 1) : State(p, i) = "Used"
        /\ nFreeFrames[p] = last.pre - last.n

\* A release_frames call freed a run of pool p.
Freed(c) == c.op = "release_frames" /\ c.pool # NULL /\ c.out # <<"not_head">>

InfoFrame(p) ==
  IF info_frame_no[p] = 0 THEN base_frame_no[p] ELSE info_frame_no[p]

\* A constructor call ran to its end.
Built(c) == c.op = "construct" /\ c.out # <<"assert">>

\* C11: right after a pool is constructed, with info_frame_no zero or not, the
\* frame that holds its state array is HeadOfSequence, every other frame of
\* the pool is Free, the free counter is nframes - 1, and the pool is the
\* tail of the registry, and its head when the registry was empty (stated for
\* memory that read zero before the pools were built).
C11_FreshPool ==
  (ZeroBoot /\ Built(last)) =>
    LET p == last.pool
    IN  /\ \A i \in Frames(p) :
             State(p, i) = IF base_frame_no[p] + i = InfoFrame(p)
                           THEN "HoS"
                           ELSE "Free"
        /\ nFreeFrames[p] = nframes[p] - 1
        /\ tail = p
        /\ last.out = <<"init">> => head = p

\* C12: with two pools constructed over disjoint frame ranges, a get_frames
\* call on one of them changes no frame state and not the free counter of
\* the other (stated for memory that read zero before the pools were built,
\* and for calls made while the pool's free counter is positive).
C12_OtherPoolUntouched ==
  [][(ZeroBoot /\ last'.op = "get_frames" /\ last'.pre > 0) =>
       \A q \in Pools \ {last'.pool} :
         constructed[q] =>
           /\ nFreeFrames'[q] = nFreeFrames[q]
           /\ \A i \in Frames(q) : StateAfter(q, i) = State(q, i)]_vars

\* C13: a constructor call halts on its capacity assert exactly when the
\* frame count it was passed needs more than the FRAME_SIZE * 8 bits of one
\* frame for its two-bit states, and a call that halts registers no pool.
C13_CapacityCheckOnArgument ==
  last.op = "construct" =>
    /\ last.out = <<"assert">> <=> last.n * 2 > FRAME_SIZE * 8
    /\ last.out = <<"assert">> =>
         ~constructed[last.pool] /\ ~Registered(last.pool)

-----------------------------------------------------------------------------
(* Sizing *)

\* Largest frame count passed to needed_info_frames.
MaxSizing == 64

SizingInputs == 0 .. MaxSizing

\* (_n_frames * 2 + FRAME_SIZE_BITS - 1) / FRAME_SIZE_BITS, rounded down
needed_info_frames_Floor(_n_frames) ==
  LET FRAME_SIZE_BITS == FRAME_SIZE * 8
  IN  (_n_frames * 2) \div FRAME_SIZE_BITS

\* ContFramePool::needed_info_frames
needed_info_frames(_n_frames) ==
  LET FRAME_SIZE_BITS == FRAME_SIZE * 8
  IN  (_n_frames * 2 + FRAME_SIZE_BITS - 1) \div FRAME_SIZE_BITS

\* A frame count is chosen for a call of needed_info_frames.
InitSizing ==
  /\ boot \in PriorBytes
  /\ mem = [a \in MemAddrs |-> boot]
  /\ NoPools
  /\ \E n \in SizingInputs : last = Call("input", NULL, 0, n, 0, 0, <<>>)

\* needed_info_frames(last.n) is called: it is static and touches no pool.
NeededInfoFrames ==
  /\ last.op = "input"
  /\ last' = Call("needed_info_frames", NULL, 0, last.n,
                  needed_info_frames(last.n), 0, <<>>)
  /\ UNCHANGED <<mem, poolVars, nFreeFrames, linkVars, halted, calls>>

NextSizing == NeededInfoFrames

SpecSizing == InitSizing /\ [][NextSizing]_vars

\* C14: needed_info_frames(n) is ceil(2n / (FRAME_SIZE * 8)): the frames it
\* returns hold n two-bit states and one frame fewer does not; and it is
\* monotonically non-decreasing: no smaller frame count needs more frames.
C14_SizingIsCeiling ==
  last.op = "needed_info_frames" =>
    /\ last.ret * (FRAME_SIZE * 8) >= 2 * last.n
    /\ (last.ret - 1) * (FRAME_SIZE * 8) < 2 * last.n
    /\ \A m \in 0 .. last.n : needed_info_frames(m) <= last.ret

\* needed_info_frames was called with a frame count that needs two or more
\* frames and fills the last of them only in part.
C14_Witness ==
  /\ last.op = "needed_info_frames"
  /\ last.ret >= 2
  /\ (2 * last.n) % (FRAME_SIZE * 8) # 0

-----------------------------------------------------------------------------
(* Properties of placement, run structure and the registry *)

\* Relative indices of pool p at which a run of n Free frames begins.
RunStarts(p, n) ==
  {i \in Frames(p) : \A j \in i .. (i + n - 1) : j \in FreeFramesOf(p)}

\* The lowest of them.
FirstFit(p, n) ==
  CHOOSE i \in RunStarts(p, n) : \A j \in RunStarts(p, n) : i <= j

\* C15: a get_frames(n) call on a pool that holds a run of n Free frames
\* returns base_frame_no + i for the lowest relative index i at which such a
\* run begins; the first allocation on a pool just constructed with its state
\* array in its base frame returns base_frame_no + 1 (stated for memory that
\* read zero before the pools were built).
C15_FirstFit ==
  [][(ZeroBoot /\ Returned(last')) =>
       LET p == last'.pool
       IN  /\ HasFreeRun(p, last'.n) =>
                last'.ret = base_frame_no[p] + FirstFit(p, last'.n)
           /\ (Built(last) /\ last.pool = p /\ info_frame_no[p] = 0) =>
                last'.ret = base_frame_no[p] + 1]_vars

\* C16: in every reachable state the runs of every constructed pool are
\* delimited: relative frame 0 is never Allocated, and every Allocated frame
\* at index i > 0 follows a frame that is HeadOfSequence or Allocated (stated
\* for memory that read zero before the pools were built).
C16_RunsDelimited ==
  ZeroBoot =>
    \A p \in Pools :
      constructed[p] =>
        /\ State(p, 0) # "Used"
        /\ \A i \in Frames(p) \ {0} :
             State(p, i) = "Used" => State(p, i - 1) \in {"HoS", "Used"}

\* C17: get_frames(n) accesses the state of no relative index at or above
\* nframes: the indices it searches, 0 up to the head it returns, and the
\* indices it marks, the n from that head on, all lie below nframes (stated
\* for memory that read zero before the pools were built).
C17_AccessesInsidePool ==
  (ZeroBoot /\ Returned(last)) =>
    HeadOf(last) + last.n <= nframes[last.pool]

-----------------------------------------------------------------------------
(* The state codec on arbitrary state arrays *)

\* A state array at the start of the modelled memory, and the relative
\* indices whose states its first frame holds.
CodecPtr == FRAME_SIZE * 1
CodecSlots == 0 .. (4 * FRAME_SIZE - 1)

\* The states set_state is called with.
CodecStates == {"Free", "Used", "HoS"}

\* An index i, a state s and a state array are chosen for a set_state call:
\* the byte that holds the field of i has any value.
InitCodec ==
  /\ boot \in PriorBytes
  /\ NoPools
  /\ \E i \in CodecSlots : \E s \in CodecStates : \E b \in 0 .. 255 :
       /\ mem = [a \in MemAddrs |->
                   IF a = CodecPtr + (i \div 4) THEN b ELSE boot]
       /\ last = Call("input", NULL, i, 0, 0, 0, <<s>>)

\* set_state(last.f, last.out[1]) is called on the state array.
SetState ==
  /\ last.op = "input"
  /\ mem' = set_state(mem, CodecPtr, last.f, last.out[1])
  /\ last' = Call("set_state", NULL, last.f, 0, 0, 0, last.out)
  /\ UNCHANGED <<poolVars, nFreeFrames, linkVars, halted, calls>>

NextCodec == SetState

SpecCodec == InitCodec /\ [][NextCodec]_vars

\* C18: after set_state(i, s), s one of Free, Allocated, HeadOfSequence,
\* get_state(i) returns s and get_state(j) returns what it returned before
\* for every other index j, the three others of the same byte included; no
\* field holds the bit pattern 11 that did not hold it before, and every byte
\* stays a byte.
C18_CodecLaw ==
  [][last'.op = "set_state" =>
       LET i == last'.f
           s == last'.out[1]
       IN  /\ get_state(mem', CodecPtr, i) = s
           /\ \A j \in CodecSlots \ {i} :
                get_state(mem', CodecPtr, j) = get_state(mem, CodecPtr, j)
           /\ \A j \in CodecSlots :
                LSB(mem', CodecPtr, j) = 3 =>
                  (j # i /\ LSB(mem, CodecPtr, j) = 3)
           /\ \A a \in MemAddrs : mem'[a] \in 0 .. 255]_vars

\* set_state wrote Allocated into a byte in which another frame is
\* HeadOfSequence and a third holds the bit pattern 11.
C18_Witness ==
  /\ last.op = "set_state"
  /\ last.out = <<"Used">>
  /\ \E j, k \in CodecSlots :
       /\ j # last.f /\ j \div 4 = last.f \div 4
       /\ k # last.f /\ k \div 4 = last.f \div 4
       /\ get_state(mem, CodecPtr, j) = "HoS"
       /\ get_state(mem, CodecPtr, k) = "Error"

\* The pools met by following next from t, at most k of them.
RECURSIVE ListFrom(_, _)
ListFrom(t, k) ==
  IF t = NULL \/ k = 0 THEN <<>> ELSE <<t>> \o ListFrom(next[t], k - 1)

\* The registry as a sequence, from head.
Registry == ListFrom(head, Cardinality(Pools) + 1)

\* Sequence s without pool p.
Without(s, p) == SelectSeq(s, LAMBDA q : q # p)

\* The registry is a doubly linked list from head to tail.
WellLinked ==
  LET r == Registry
  IN  /\ \A j, k \in 1 .. Len(r) : r[j] = r[k] => j = k
      /\ head = NULL <=> tail = NULL
      /\ head # NULL =>
           /\ tail = r[Len(r)]
           /\ prev[head] = NULL
           /\ next[tail] = NULL
           /\ \A k \in 1 .. (Len(r) - 1) : prev[r[k + 1]] = r[k]

OwnInfoFrame(p) == constructed[p] /\ Owns(p, InfoFrame(p))

\* C20: the frame that holds a pool's state array, when it is a frame of the
\* pool's own range, is never Free, and get_frames never returns a run that
\* holds it (stated for memory that read zero before the pools were built).
C20_InfoFrameKept ==
  ZeroBoot =>
    \A p \in Pools :
      OwnInfoFrame(p) =>
        /\ State(p, InfoFrame(p) - base_frame_no[p]) # "Free"
        /\ (Returned(last) /\ last.pool = p) =>
             InfoFrame(p) \notin last.ret .. (last.ret + last.n - 1)

=============================================================================
